---------------------------- MODULE Spec2Model ----------------------------
(***************************************************************************)
(* A model of vpcctl.py: the five operations create-vpc, add-subnet,       *)
(* apply-policies, peer-vpc and delete-vpc, each a sequence of shell       *)
(* commands acting on the host's network state (bridges, veth pairs,       *)
(* network namespaces, addresses, routes, iptables chains) and on the      *)
(* per-VPC metadata files under logs/.                                     *)
(*                                                                         *)
(* Names are sequences of one-character strings, so that slicing           *)
(* (vpc1[:3]) and substring tests (vpc_name in ns) are computed.           *)
(* The log file itself is not modelled; the logs/ directory is, as the     *)
(* home of the metadata files.                                             *)
(***************************************************************************)
EXTENDS Integers, Sequences, FiniteSets, TLC

(***************************************************************************)
(* Bounds of the model.                                                    *)
(***************************************************************************)
\* the number of operations of a run
MaxOps == 5
\* the number of operations of a run that is about address allocation
MaxAllocOps == 3
\* the longest INPUT chain, and half the longest FORWARD chain
MaxChain == 2
\* the number of operations of a run in which commands fail
MaxFaultOps == 3
\* the number of operations of a run with VPC names that contain one another
MaxNameOps == 5

(***************************************************************************)
(* Names.                                                                  *)
(***************************************************************************)
app == <<"a", "p", "p">>
data == <<"d", "a", "t", "a">>
web == <<"w", "e", "b">>
db == <<"d", "b">>
apple == <<"a", "p", "p", "l", "e">>

VpcNames == {app, data}
SubnetNames == {web, db}
\* VPC names of which one is the beginning of another
WideVpcNames == {app, apple, data}
Roles == {"public", "private"}

NoIface == "none"
Ifaces == {NoIface, "eth0"}

\* hashlib.md5(name.encode()).hexdigest()[:3], tabulated for the names used
md5_3(name) ==
  CASE name = app -> <<"d", "2", "a">>
    [] name = data -> <<"8", "d", "7">>
    [] name = web -> <<"2", "5", "6">>
    [] name = db -> <<"d", "7", "7">>
    [] name = apple -> <<"1", "f", "3">>

Min(a, b) == IF a < b THEN a ELSE b

\* s[:n]
Take(s, n) == SubSeq(s, 1, Min(n, Len(s)))

\* a in b, for strings
Contains(b, a) ==
  \E i \in 0..(Len(b) - Len(a)) : SubSeq(b, i + 1, i + Len(a)) = a

bridge_name(vpc) == <<"b", "r", "-">> \o vpc
ns_name(vpc, subnet) == vpc \o <<"-">> \o subnet
veth_host(vpc, subnet) == Take(<<"v">> \o md5_3(vpc) \o md5_3(subnet) \o <<"h">>, 15)
veth_ns(vpc, subnet) == Take(<<"v">> \o md5_3(vpc) \o md5_3(subnet) \o <<"n">>, 15)
veth1(vpc1, vpc2) == Take(<<"p">> \o Take(vpc1, 3) \o Take(vpc2, 3) \o <<"a">>, 15)
veth2(vpc1, vpc2) == Take(<<"p">> \o Take(vpc1, 3) \o Take(vpc2, 3) \o <<"b">>, 15)

(***************************************************************************)
(* Addresses.  An address or network is [ip |-> <<a,b,c,d>>, len |-> n].   *)
(***************************************************************************)
Cidr(a, b, c, d, n) == [ip |-> <<a, b, c, d>>, len |-> n]

RECURSIVE Pow2(_)
Pow2(n) == IF n = 0 THEN 1 ELSE 2 * Pow2(n - 1)

\* the first three octets as one number (24 bits)
Hi24(ip) == (ip[1] * 256 + ip[2]) * 256 + ip[3]

\* the first n bits (n <= 24) of an address
Prefix24(ip, n) == Hi24(ip) \div Pow2(24 - n)

\* the first n bits (24 <= n <= 32) of the last octet's part
Low8(ip, n) == ip[4] \div Pow2(32 - n)

\* ip lies in network c
InNet(ip, c) ==
  IF c.len <= 24
  THEN Prefix24(ip, c.len) = Prefix24(c.ip, c.len)
  ELSE Hi24(ip) = Hi24(c.ip) /\ Low8(ip, c.len) = Low8(c.ip, c.len)

\* network c is contained in network b
SubnetOf(c, b) == c.len >= b.len /\ InNet(c.ip, b)

Overlap(c1, c2) == SubnetOf(c1, c2) \/ SubnetOf(c2, c1)

\* ipaddress.ip_network(ip_cidr, strict=False): the host bits cleared
ip_network(a) ==
  IF a.len <= 24
  THEN LET m == Pow2(24 - a.len)
           h == Hi24(a.ip) - (Hi24(a.ip) % m)
       IN  Cidr(h \div 65536, (h \div 256) % 256, h % 256, 0, a.len)
  ELSE LET m == Pow2(32 - a.len)
       IN  Cidr(a.ip[1], a.ip[2], a.ip[3], a.ip[4] - (a.ip[4] % m), a.len)

\* a well-formed network: no host bit set
ValidNet(c) == ip_network(c) = c

DefaultDst == Cidr(0, 0, 0, 0, 0)

(***************************************************************************)
(* The host's state.                                                       *)
(*   bridges : bridge device name -> [up, addrs], addrs in the order       *)
(*             "ip addr show" lists them (the order they were added)       *)
(*   veths   : the veth pairs; end a is in the host, end b in the host or  *)
(*             in namespace bNs                                            *)
(*   netns   : namespace name -> [routes, loUp]                            *)
(*   hroutes : the host's static routes, <<network, bridge>>               *)
(*   nat, input, forward : the iptables chains nat/POSTROUTING,            *)
(*             filter/INPUT and filter/FORWARD, in rule order              *)
(*   meta    : VPC name -> the public_interface of logs/<name>.meta        *)
(***************************************************************************)
NoName == <<>>
HostNs == NoName

Put(f, k, v) == [x \in (DOMAIN f) \cup {k} |-> IF x = k THEN v ELSE f[x]]
Drop(f, ks) == [x \in (DOMAIN f) \ ks |-> f[x]]
EmptyMap == [x \in {} |-> 0]

EmptyOS ==
  [bridges |-> EmptyMap, veths |-> {}, netns |-> EmptyMap, hroutes |-> {},
   nat |-> <<>>, input |-> <<>>, forward |-> <<>>, ipfwd |-> FALSE,
   meta |-> EmptyMap]

Done(st) == [st |-> st, ok |-> TRUE]
Failed(st) == [st |-> st, ok |-> FALSE]

\* a device of this name exists in the host's namespace
HostDev(st, dev) ==
  \/ dev \in DOMAIN st.bridges
  \/ \E v \in st.veths : v.a = dev \/ (v.b = dev /\ v.bNs = HostNs)

\* ip link add name <br> type bridge
ip_link_add_bridge(st, br) ==
  IF HostDev(st, br) THEN Failed(st)
  ELSE Done([st EXCEPT !.bridges = Put(@, br, [up |-> FALSE, addrs |-> <<>>])])

\* a flush that leaves the addresses
ip_addr_flush_keeps(st, br) ==
  IF br \notin DOMAIN st.bridges THEN Failed(st) ELSE Done(st)

\* ip addr flush dev <br>: the addresses go, and with the last address the
\* kernel drops the routes through the device
ip_addr_flush(st, br) ==
  IF br \notin DOMAIN st.bridges THEN Failed(st)
  ELSE Done([st EXCEPT !.bridges[br].addrs = <<>>,
                       !.hroutes = {r \in @ : r[2] # br}])

\* ip addr add <addr> dev <br>
ip_addr_add(st, br, addr) ==
  IF br \notin DOMAIN st.bridges THEN Failed(st)
  ELSE IF \E i \in 1..Len(st.bridges[br].addrs) : st.bridges[br].addrs[i] = addr
  THEN Failed(st)
  ELSE Done([st EXCEPT !.bridges[br].addrs = Append(@, addr)])

\* ip link set <dev> up / down, for a bridge or a veth end in the host; the
\* routes through a device go when it goes down
ip_link_set_updown(st, dev, up) ==
  IF dev \in DOMAIN st.bridges
  THEN Done([st EXCEPT !.bridges[dev].up = up,
                       !.hroutes = IF up THEN @ ELSE {r \in @ : r[2] # dev}])
  ELSE IF ~HostDev(st, dev) THEN Failed(st)
  ELSE Done([st EXCEPT !.veths =
         {IF v.a = dev THEN [v EXCEPT !.aUp = up]
          ELSE IF v.b = dev /\ v.bNs = HostNs THEN [v EXCEPT !.bUp = up]
          ELSE v : v \in @}])

\* ip link delete <br> type bridge: its ports lose their master, the routes
\* through it go
ip_link_delete_bridge(st, br) ==
  IF br \notin DOMAIN st.bridges THEN Failed(st)
  ELSE Done([st EXCEPT
         !.bridges = Drop(@, {br}),
         !.hroutes = {r \in @ : r[2] # br},
         !.veths = {[v EXCEPT !.aMaster = IF @ = br THEN NoName ELSE @,
                              !.bMaster = IF @ = br THEN NoName ELSE @]
                    : v \in @}])

\* ip link del <dev>, for a veth end in the host: the pair goes
ip_link_del(st, dev) ==
  IF ~\E v \in st.veths : v.a = dev \/ (v.b = dev /\ v.bNs = HostNs)
  THEN Failed(st)
  ELSE Done([st EXCEPT !.veths =
         {v \in @ : ~(v.a = dev \/ (v.b = dev /\ v.bNs = HostNs))}])

\* ip link add <a> type veth peer name <b>
ip_link_add_veth(st, a, b) ==
  IF HostDev(st, a) \/ HostDev(st, b) \/ a = b THEN Failed(st)
  ELSE Done([st EXCEPT !.veths = @ \cup
         {[a |-> a, b |-> b, bNs |-> HostNs, aMaster |-> NoName,
           bMaster |-> NoName, aUp |-> FALSE, bUp |-> FALSE, bAddrs |-> {}]}])

\* ip netns add <ns>
ip_netns_add(st, ns) ==
  IF ns \in DOMAIN st.netns THEN Failed(st)
  ELSE Done([st EXCEPT !.netns = Put(@, ns, [routes |-> {}, loUp |-> FALSE])])

\* a deletion that leaves the namespace
ip_netns_del_keeps(st, ns) ==
  IF ns \notin DOMAIN st.netns THEN Failed(st) ELSE Done(st)

\* ip netns del <ns>: the devices inside go, and a veth end takes its peer
ip_netns_del(st, ns) ==
  IF ns \notin DOMAIN st.netns THEN Failed(st)
  ELSE Done([st EXCEPT !.netns = Drop(@, {ns}),
                       !.veths = {v \in @ : v.bNs # ns}])

\* ip link set <dev> netns <ns>
ip_link_set_netns(st, dev, ns) ==
  IF \/ ns \notin DOMAIN st.netns
     \/ ~\E v \in st.veths : v.b = dev /\ v.bNs = HostNs
     \/ \E v \in st.veths : v.b = dev /\ v.bNs = ns
  THEN Failed(st)
  ELSE Done([st EXCEPT !.veths =
         {IF v.b = dev /\ v.bNs = HostNs
          THEN [v EXCEPT !.bNs = ns, !.bMaster = NoName, !.bUp = FALSE,
                         !.bAddrs = {}]
          ELSE v : v \in @}])

\* ip link set <dev> master <br>
ip_link_set_master(st, dev, br) ==
  IF br \notin DOMAIN st.bridges \/ dev \in DOMAIN st.bridges \/ ~HostDev(st, dev)
  THEN Failed(st)
  ELSE Done([st EXCEPT !.veths =
         {IF v.a = dev THEN [v EXCEPT !.aMaster = br]
          ELSE IF v.b = dev /\ v.bNs = HostNs THEN [v EXCEPT !.bMaster = br]
          ELSE v : v \in @}])

\* a device of this name is inside namespace ns
NsDev(st, ns, dev) ==
  ns \in DOMAIN st.netns /\ \E v \in st.veths : v.b = dev /\ v.bNs = ns

\* ip netns exec <ns> ip addr add <addr> dev <dev>
ns_addr_add(st, ns, addr, dev) ==
  IF ~NsDev(st, ns, dev) THEN Failed(st)
  ELSE IF \E v \in st.veths : v.b = dev /\ v.bNs = ns /\ addr \in v.bAddrs
  THEN Failed(st)
  ELSE Done([st EXCEPT !.veths =
         {IF v.b = dev /\ v.bNs = ns THEN [v EXCEPT !.bAddrs = @ \cup {addr}]
          ELSE v : v \in @}])

\* ip netns exec <ns> ip link set <dev> up
ns_link_set_up(st, ns, dev) ==
  IF ~NsDev(st, ns, dev) THEN Failed(st)
  ELSE Done([st EXCEPT !.veths =
         {IF v.b = dev /\ v.bNs = ns THEN [v EXCEPT !.bUp = TRUE]
          ELSE v : v \in @}])

\* ip netns exec <ns> ip link set lo up
ns_lo_up(st, ns) ==
  IF ns \notin DOMAIN st.netns THEN Failed(st)
  ELSE Done([st EXCEPT !.netns[ns].loUp = TRUE])

\* the addresses "ip -o -4 addr show" lists inside ns, loopback aside
NsAddrs(st, ns) == UNION {v.bAddrs : v \in {w \in st.veths : w.bNs = ns}}

\* the networks of the connected routes inside ns: those of the addresses of
\* the devices that are up
NsConnected(st, ns) ==
  {ip_network(a) : a \in UNION {v.bAddrs : v \in {w \in st.veths : w.bNs = ns /\ w.bUp}}}

\* ip netns exec <ns> ip route add <dst> via <gw>.  The kernel refuses a
\* second route to the same destination (File exists) and a gateway that no
\* connected route of the namespace reaches (Nexthop has invalid gateway).
ns_route_add(st, ns, dst, gw) ==
  IF ns \notin DOMAIN st.netns THEN Failed(st)
  ELSE IF \/ \E r \in st.netns[ns].routes : r[1] = dst
          \/ dst \in NsConnected(st, ns)
          \/ ~\E c \in NsConnected(st, ns) : InNet(gw, c)
  THEN Failed(st)
  ELSE Done([st EXCEPT !.netns[ns].routes = @ \cup {<<dst, gw>>}])

\* the networks of the host's connected routes through the bridges
HostConnected(st) ==
  {ip_network(st.bridges[b].addrs[i]) :
     <<b, i>> \in {<<b, i>> \in (DOMAIN st.bridges) \X (1..3) :
                      st.bridges[b].up /\ i <= Len(st.bridges[b].addrs)}}

\* ip route add <dst> dev <br>, on the host
host_route_add(st, dst, br) ==
  IF br \notin DOMAIN st.bridges THEN Failed(st)
  ELSE IF \/ ~st.bridges[br].up
          \/ \E r \in st.hroutes : r[1] = dst
          \/ dst \in HostConnected(st)
  THEN Failed(st)
  ELSE Done([st EXCEPT !.hroutes = @ \cup {<<dst, br>>}])

InSeq(s, x) == \E i \in 1..Len(s) : s[i] = x
Count(s, x) == Cardinality({i \in 1..Len(s) : s[i] = x})

\* iptables -t nat -C POSTROUTING -s <cidr> -o <iface> -j MASQUERADE
iptables_nat_check(st, cidr, iface) ==
  IF InSeq(st.nat, <<cidr, iface>>) THEN Done(st) ELSE Failed(st)

\* iptables -t nat -A POSTROUTING -s <cidr> -o <iface> -j MASQUERADE
iptables_nat_append(st, cidr, iface) ==
  Done([st EXCEPT !.nat = Append(@, <<cidr, iface>>)])

\* iptables -A FORWARD -i <in> -o <out> -j ACCEPT
iptables_forward_append(st, in, out) ==
  Done([st EXCEPT !.forward = Append(@, <<in, out>>)])

\* iptables -A INPUT -s <subnet> -p <proto> --dport <port> -j <target>
iptables_input_append(st, subnet, proto, port, target) ==
  Done([st EXCEPT !.input = Append(@, <<subnet, proto, port, target>>)])

\* iptables -F
iptables_flush(st) == Done([st EXCEPT !.input = <<>>, !.forward = <<>>])

\* iptables -t nat -F
iptables_nat_flush(st) == Done([st EXCEPT !.nat = <<>>])

\* sysctl -w net.ipv4.ip_forward=1
sysctl_ip_forward(st) == Done([st EXCEPT !.ipfwd = TRUE])

\* rm -rf logs
rm_logs(st) == Done([st EXCEPT !.meta = EmptyMap])

(***************************************************************************)
(* The shell.  A command line is [c, a, ortrue]: the command, its          *)
(* arguments, and whether the line ends in "|| true".  sh gives what the   *)
(* command does to the host's state and whether it exits 0.                *)
(***************************************************************************)
Cmd(c, a) == [c |-> c, a |-> a, ortrue |-> FALSE]
OrTrue(c, a) == [c |-> c, a |-> a, ortrue |-> TRUE]

\* the rule appended without the check
nat_append_unchecked(st, cidr, iface) == iptables_nat_append(st, cidr, iface)

\* iptables -t nat -C ... || iptables -t nat -A ...
nat_check_or_append(st, cidr, iface) ==
  IF iptables_nat_check(st, cidr, iface).ok THEN Done(st)
  ELSE iptables_nat_append(st, cidr, iface)

sh(st, cmd) ==
  CASE cmd.c = "ip link add type bridge" -> ip_link_add_bridge(st, cmd.a[1])
    [] cmd.c = "ip addr flush dev" -> ip_addr_flush(st, cmd.a[1])
    [] cmd.c = "ip addr add dev" -> ip_addr_add(st, cmd.a[2], cmd.a[1])
    [] cmd.c = "ip link set up" -> ip_link_set_updown(st, cmd.a[1], TRUE)
    [] cmd.c = "ip link set down" -> ip_link_set_updown(st, cmd.a[1], FALSE)
    [] cmd.c = "ip link delete type bridge" -> ip_link_delete_bridge(st, cmd.a[1])
    [] cmd.c = "ip link del" -> ip_link_del(st, cmd.a[1])
    [] cmd.c = "ip link add type veth peer name" -> ip_link_add_veth(st, cmd.a[1], cmd.a[2])
    [] cmd.c = "ip netns add" -> ip_netns_add(st, cmd.a[1])
    [] cmd.c = "ip netns del" -> ip_netns_del(st, cmd.a[1])
    [] cmd.c = "ip link set netns" -> ip_link_set_netns(st, cmd.a[1], cmd.a[2])
    [] cmd.c = "ip link set master" -> ip_link_set_master(st, cmd.a[1], cmd.a[2])
    [] cmd.c = "ip netns exec ip addr add dev" -> ns_addr_add(st, cmd.a[1], cmd.a[2], cmd.a[3])
    [] cmd.c = "ip netns exec ip link set up" -> ns_link_set_up(st, cmd.a[1], cmd.a[2])
    [] cmd.c = "ip netns exec ip link set lo up" -> ns_lo_up(st, cmd.a[1])
    [] cmd.c = "ip netns exec ip route add via" -> ns_route_add(st, cmd.a[1], cmd.a[2], cmd.a[3])
    [] cmd.c = "ip route add dev" -> host_route_add(st, cmd.a[1], cmd.a[2])
    [] cmd.c = "iptables -t nat -C || iptables -t nat -A" ->
         nat_check_or_append(st, cmd.a[1], cmd.a[2])
    [] cmd.c = "iptables -A FORWARD" -> iptables_forward_append(st, cmd.a[1], cmd.a[2])
    [] cmd.c = "iptables -A INPUT" ->
         iptables_input_append(st, cmd.a[1], cmd.a[2], cmd.a[3], cmd.a[4])
    [] cmd.c = "iptables -F" -> iptables_flush(st)
    [] cmd.c = "iptables -t nat -F" -> iptables_nat_flush(st)
    [] cmd.c = "sysctl -w net.ipv4.ip_forward=1" -> sysctl_ip_forward(st)
    [] cmd.c = "rm -rf logs" -> rm_logs(st)

(***************************************************************************)
(* run_cmd.  An operation threads a run [st, ok, n, f, tr] through its     *)
(* commands: st the host's state, ok whether the operation is still        *)
(* running (sys.exit(1) clears it), n the commands issued so far, f the    *)
(* numbers of the commands that fail for a reason outside the model, and   *)
(* tr the commands issued, in order, each with the state it found and      *)
(* whether the command itself (before "|| true") exited 0.                 *)
(***************************************************************************)
NoFault == {}

Start(st, f) == [st |-> st, ok |-> TRUE, n |-> 0, f |-> f, tr |-> <<>>]

\* what a command line does: the command, then "|| true"
or_true(out, cmd) ==
  [st |-> out.st, ok |-> out.ok \/ cmd.ortrue, cmd |-> cmd, raw |-> out.ok]

\* subprocess.run(cmd, shell=True, check=True)
shell(r, cmd) ==
  or_true(IF (r.n + 1) \in r.f THEN Failed(r.st) ELSE sh(r.st, cmd), cmd)

\* the run after a command: sys.exit(1) when it failed, unless ignore_error
after_cmd(r, out, ignore_error) ==
  [st |-> out.st, ok |-> out.ok \/ ignore_error, n |-> r.n + 1, f |-> r.f,
   tr |-> Append(r.tr, [cmd |-> out.cmd, raw |-> out.raw, st |-> r.st,
                        ignore_error |-> ignore_error])]

run_cmd(r, cmd, ignore_error) ==
  IF ~r.ok THEN r ELSE after_cmd(r, shell(r, cmd), ignore_error)

\* print(...); sys.exit(1)
exit(r) == [r EXCEPT !.ok = FALSE]

Result(r) == [st |-> r.st, ok |-> r.ok]

(***************************************************************************)
(* create_vpc(name, base_cidr, public_iface)                               *)
(***************************************************************************)
\* base_cidr.split('.')[0] and [1]: the text before the first and the second
\* dot, the first two octets of a dotted quad
first_octet(base_cidr) == base_cidr.ip[1]
second_octet(base_cidr) == base_cidr.ip[2]

\* the bridge's own address, <first>.<second>.0.1/16
vpc_gateway(base_cidr) == Cidr(first_octet(base_cidr), second_octet(base_cidr), 0, 1, 16)

\* json.dump of the metadata file
write_meta(r, name, public_iface) ==
  IF r.ok THEN [r EXCEPT !.st.meta = Put(@, name, public_iface)] ELSE r

create_vpc_run(st, name, base_cidr, public_iface, f) ==
  LET br == bridge_name(name)
      r0 == Start(st, f)
      r1 == run_cmd(r0, OrTrue("ip link add type bridge", <<br>>), FALSE)
      r2 == run_cmd(r1, OrTrue("ip addr flush dev", <<br>>), FALSE)
      r3 == run_cmd(r2, Cmd("ip addr add dev", <<vpc_gateway(base_cidr), br>>), FALSE)
      r4 == run_cmd(r3, Cmd("ip link set up", <<br>>), FALSE)
  IN  write_meta(r4, name, public_iface)

create_vpc(st, name, base_cidr, public_iface, f) ==
  Result(create_vpc_run(st, name, base_cidr, public_iface, f))

(***************************************************************************)
(* add_subnet(vpc_name, subnet_name, subnet_type, base_cidr)               *)
(***************************************************************************)
\* the bridge not looked for
bridge_check_skipped(r, br) == r

\* "ip link show <bridge>" finds the device, or the operation ends
bridge_check(r, br) == IF r.ok /\ ~HostDev(r.st, br) THEN exit(r) ELSE r

subnet_id(subnet_type) == IF subnet_type = "public" THEN 1 ELSE 2

subnet_cidr(base_cidr, subnet_type) ==
  Cidr(first_octet(base_cidr), second_octet(base_cidr), subnet_id(subnet_type), 0, 24)

namespace_ip(base_cidr, subnet_type) ==
  Cidr(first_octet(base_cidr), second_octet(base_cidr), subnet_id(subnet_type), 2, 24)

gateway_ip(base_cidr, subnet_type) ==
  Cidr(first_octet(base_cidr), second_octet(base_cidr), subnet_id(subnet_type), 1, 24)

gateway_ip_only(base_cidr, subnet_type) == gateway_ip(base_cidr, subnet_type).ip

\* "ip link show <veth_ns>" finds the new device, or the operation ends
veth_check(r, dev) == IF r.ok /\ ~HostDev(r.st, dev) THEN exit(r) ELSE r

\* the default route: installed whatever the subnet_type
default_route(r, ns, base_cidr, subnet_type) ==
  run_cmd(r, Cmd("ip netns exec ip route add via",
                 <<ns, DefaultDst, gateway_ip_only(base_cidr, subnet_type)>>), FALSE)

\* "ip netns exec <ns> ip addr show <veth_ns>" shows the namespace address,
\* or the operation ends
verify_ip(r, ns, dev, addr) ==
  IF r.ok /\ ~\E v \in r.st.veths :
                 v.b = dev /\ v.bNs = ns /\ \E a \in v.bAddrs : a.ip = addr.ip
  THEN exit(r) ELSE r

\* the metadata file's public_interface, None without the file or the key
read_meta(st, vpc_name) ==
  IF vpc_name \in DOMAIN st.meta THEN st.meta[vpc_name] ELSE NoIface

\* the NAT rule of a public subnet of a VPC with a public interface
apply_nat(r, vpc_name, subnet_type, base_cidr) ==
  IF r.ok /\ subnet_type = "public" /\ read_meta(r.st, vpc_name) # NoIface
  THEN run_cmd(r, Cmd("iptables -t nat -C || iptables -t nat -A",
                      <<subnet_cidr(base_cidr, subnet_type), read_meta(r.st, vpc_name)>>),
               TRUE)
  ELSE r

add_subnet_run(st, vpc_name, subnet_name, subnet_type, base_cidr, f) ==
  LET ns == ns_name(vpc_name, subnet_name)
      br == bridge_name(vpc_name)
      vh == veth_host(vpc_name, subnet_name)
      vn == veth_ns(vpc_name, subnet_name)
      nsip == namespace_ip(base_cidr, subnet_type)
      r0 == bridge_check(Start(st, f), br)
      r1 == run_cmd(r0, OrTrue("ip link del", <<vh>>), TRUE)
      r2 == run_cmd(r1, OrTrue("ip netns del", <<ns>>), TRUE)
      r3 == run_cmd(r2, Cmd("ip netns add", <<ns>>), FALSE)
      r4 == run_cmd(r3, Cmd("ip link add type veth peer name", <<vh, vn>>), FALSE)
      r4c == veth_check(r4, vn)
      r5 == run_cmd(r4c, Cmd("ip link set netns", <<vn, ns>>), FALSE)
      r6 == run_cmd(r5, Cmd("ip link set master", <<vh, br>>), FALSE)
      r7 == run_cmd(r6, Cmd("ip link set up", <<vh>>), FALSE)
      r8 == run_cmd(r7, Cmd("ip netns exec ip addr add dev", <<ns, nsip, vn>>), FALSE)
      r9 == run_cmd(r8, Cmd("ip netns exec ip link set up", <<ns, vn>>), FALSE)
      r10 == run_cmd(r9, Cmd("ip netns exec ip link set lo up", <<ns>>), FALSE)
      r11 == run_cmd(r10, OrTrue("ip addr add dev",
                                 <<gateway_ip(base_cidr, subnet_type), br>>), TRUE)
      r12 == default_route(r11, ns, base_cidr, subnet_type)
      r12c == verify_ip(r12, ns, vn, nsip)
  IN  apply_nat(r12c, vpc_name, subnet_type, base_cidr)

add_subnet(st, vpc_name, subnet_name, subnet_type, base_cidr, f) ==
  Result(add_subnet_run(st, vpc_name, subnet_name, subnet_type, base_cidr, f))

(***************************************************************************)
(* apply_policies(vpc_name, policies_file).  A policies file is "missing"   *)
(* or a sequence of [subnet, ingress], ingress a sequence of               *)
(* [port, protocol, action].                                               *)
(***************************************************************************)
MissingFile == "missing"

target_of(action) == IF action = "allow" THEN "ACCEPT" ELSE "DROP"

RECURSIVE ingress_loop(_, _, _)
ingress_loop(r, subnet, rules) ==
  IF rules = <<>> THEN r
  ELSE ingress_loop(run_cmd(r, Cmd("iptables -A INPUT",
                                   <<subnet, Head(rules).protocol, Head(rules).port,
                                     target_of(Head(rules).action)>>), FALSE),
                    subnet, Tail(rules))

RECURSIVE policy_loop(_, _)
policy_loop(r, policies) ==
  IF policies = <<>> THEN r
  ELSE policy_loop(ingress_loop(r, Head(policies).subnet, Head(policies).ingress),
                   Tail(policies))

apply_policies_run(st, vpc_name, policies_file, f) ==
  IF policies_file = MissingFile THEN exit(Start(st, f))
  ELSE policy_loop(Start(st, f), policies_file)

apply_policies(st, vpc_name, policies_file, f) ==
  Result(apply_policies_run(st, vpc_name, policies_file, f))

(***************************************************************************)
(* peer_vpcs(vpc1, vpc2)                                                   *)
(***************************************************************************)
\* [ns.split()[0] for ns in all_ns if vpc in ns]: the namespaces whose line
\* of "ip netns list" contains the VPC's name.  A line is the namespace's
\* name, followed by " (id: N)" once the namespace has a device; no name of
\* the model matches inside that suffix.
ns_list_of(st, vpc) == {ns \in DOMAIN st.netns : Contains(ns, vpc)}

\* get_ns_subnets(ns): the networks of the namespace's addresses
get_ns_subnets(st, ns) == {ip_network(a) : a \in NsAddrs(st, ns)}

\* the subnets of all the namespaces of a list
vpc_subnets(st, nss) == UNION {get_ns_subnets(st, ns) : ns \in nss}

NoGateway == <<>>

\* get_bridge_gateway(bridge_name): the first "inet" line of "ip addr show"
get_bridge_gateway(st, br) ==
  IF br \in DOMAIN st.bridges /\ Len(st.bridges[br].addrs) > 0
  THEN st.bridges[br].addrs[1].ip
  ELSE NoGateway

\* for ns in ns_list: for cidr in subnets: ip netns exec ns ip route add cidr via gw
RECURSIVE ns_route_loop(_, _, _)
ns_route_loop(r, todo, gw) ==
  IF todo = {} THEN r
  ELSE LET p == CHOOSE q \in todo : TRUE
       IN  ns_route_loop(run_cmd(r, Cmd("ip netns exec ip route add via",
                                        <<p[1], p[2], gw>>), TRUE),
                         todo \ {p}, gw)

\* for cidr in subnets: ip route add cidr dev br
RECURSIVE host_route_loop(_, _, _)
host_route_loop(r, cidrs, br) ==
  IF cidrs = {} THEN r
  ELSE LET c == CHOOSE q \in cidrs : TRUE
       IN  host_route_loop(run_cmd(r, Cmd("ip route add dev", <<c, br>>), TRUE),
                           cidrs \ {c}, br)

\* the veth link between the two bridges, and IP forwarding
peer_link(r, vpc1, vpc2) ==
  LET br1 == bridge_name(vpc1)
      br2 == bridge_name(vpc2)
      v1 == veth1(vpc1, vpc2)
      v2 == veth2(vpc1, vpc2)
      r1 == run_cmd(r, OrTrue("ip link del", <<v1>>), TRUE)
      r2 == run_cmd(r1, Cmd("ip link add type veth peer name", <<v1, v2>>), FALSE)
      r3 == run_cmd(r2, Cmd("ip link set master", <<v1, br1>>), FALSE)
      r4 == run_cmd(r3, Cmd("ip link set master", <<v2, br2>>), FALSE)
      r5 == run_cmd(r4, Cmd("ip link set up", <<v1>>), FALSE)
      r6 == run_cmd(r5, Cmd("ip link set up", <<v2>>), FALSE)
  IN  run_cmd(r6, Cmd("sysctl -w net.ipv4.ip_forward=1", <<>>), FALSE)

\* sys.exit(1) unless cond
exit_unless(r, cond) == IF r.ok /\ ~cond THEN exit(r) ELSE r

\* the discovery of the two VPCs' namespaces, subnets and gateways, each of
\* which ends the operation when it finds nothing
discover(r, vpc1, vpc2) ==
  LET ns_list1 == ns_list_of(r.st, vpc1)
      ns_list2 == ns_list_of(r.st, vpc2)
      r1 == exit_unless(r, ns_list1 # {})
      r2 == exit_unless(r1, ns_list2 # {})
      r3 == exit_unless(r2, vpc_subnets(r.st, ns_list1) # {})
      r4 == exit_unless(r3, vpc_subnets(r.st, ns_list2) # {})
  IN  exit_unless(r4, /\ get_bridge_gateway(r.st, bridge_name(vpc1)) # NoGateway
                      /\ get_bridge_gateway(r.st, bridge_name(vpc2)) # NoGateway)

\* the routes in the namespaces and on the host; d is the state the
\* discovery read
peer_routes(r, d, vpc1, vpc2) ==
  LET br1 == bridge_name(vpc1)
      br2 == bridge_name(vpc2)
      ns_list1 == ns_list_of(d, vpc1)
      ns_list2 == ns_list_of(d, vpc2)
      vpc1_subnets == vpc_subnets(d, ns_list1)
      vpc2_subnets == vpc_subnets(d, ns_list2)
      r1 == ns_route_loop(r, ns_list1 \X vpc2_subnets, get_bridge_gateway(d, br1))
      r2 == ns_route_loop(r1, ns_list2 \X vpc1_subnets, get_bridge_gateway(d, br2))
      r3 == host_route_loop(r2, vpc2_subnets, br1)
  IN  host_route_loop(r3, vpc1_subnets, br2)

\* the two FORWARD rules
forward_rules(r, br1, br2) ==
  run_cmd(run_cmd(r, OrTrue("iptables -A FORWARD", <<br1, br2>>), TRUE),
          OrTrue("iptables -A FORWARD", <<br2, br1>>), TRUE)

\* what follows the link: discovery, routes, rules
peer_after_link(r, vpc1, vpc2) ==
  forward_rules(peer_routes(discover(r, vpc1, vpc2), r.st, vpc1, vpc2),
                bridge_name(vpc1), bridge_name(vpc2))

peer_vpcs_run(st, vpc1, vpc2, f) ==
  peer_after_link(peer_link(Start(st, f), vpc1, vpc2), vpc1, vpc2)

peer_vpcs(st, vpc1, vpc2, f) == Result(peer_vpcs_run(st, vpc1, vpc2, f))

(***************************************************************************)
(* delete_vpc(vpc_name)                                                    *)
(***************************************************************************)
\* for ns in ns_list: if vpc_name in ns: ip netns delete ns
RECURSIVE ns_delete_loop(_, _)
ns_delete_loop(r, nss) ==
  IF nss = {} THEN r
  ELSE LET ns == CHOOSE q \in nss : TRUE
       IN  ns_delete_loop(run_cmd(r, Cmd("ip netns del", <<ns>>), FALSE), nss \ {ns})

\* the bridge's commands without "|| true" and ignore_error
bridge_teardown_strict(r, br) ==
  run_cmd(run_cmd(r, Cmd("ip link set down", <<br>>), FALSE),
          Cmd("ip link delete type bridge", <<br>>), FALSE)

\* the bridge goes: set down, then deleted
bridge_teardown(r, br) ==
  run_cmd(run_cmd(r, OrTrue("ip link set down", <<br>>), TRUE),
          OrTrue("ip link delete type bridge", <<br>>), TRUE)

\* iptables -F, iptables -t nat -F, rm -rf logs (the directory exists: the
\* log line that opens the operation made it)
flush_all(r) ==
  run_cmd(run_cmd(run_cmd(r, OrTrue("iptables -F", <<>>), TRUE),
                  OrTrue("iptables -t nat -F", <<>>), TRUE),
          Cmd("rm -rf logs", <<>>), TRUE)

delete_vpc_run(st, vpc_name, f) ==
  flush_all(bridge_teardown(ns_delete_loop(Start(st, f), ns_list_of(st, vpc_name)),
                            bridge_name(vpc_name)))

delete_vpc(st, vpc_name, f) == Result(delete_vpc_run(st, vpc_name, f))

(***************************************************************************)
(* The inputs the operations are run with.                                 *)
(***************************************************************************)
\* the base block of each VPC
vpc_block(vpc) ==
  IF vpc = app THEN Cidr(10, 20, 0, 0, 16)
  ELSE IF vpc = apple THEN Cidr(10, 40, 0, 0, 16)
  ELSE Cidr(10, 30, 0, 0, 16)

\* more base blocks, for the runs that are about address allocation: the
\* block of the VPC under prefixes from /8 to /30
AllocLens == {8, 12, 16, 17, 20, 23, 24, 25, 28, 30}

AllocBases(vpc) ==
  {ip_network([ip |-> <<vpc_block(vpc).ip[1], vpc_block(vpc).ip[2], o3, 0>>, len |-> n]) :
     <<o3, n>> \in {0, 128, 200} \X AllocLens}

Policy1 ==
  <<[subnet |-> Cidr(10, 20, 1, 0, 24),
     ingress |-> <<[port |-> 80, protocol |-> "tcp", action |-> "allow"]>>]>>

Policy2 ==
  <<[subnet |-> Cidr(10, 20, 2, 0, 24),
     ingress |-> <<[port |-> 22, protocol |-> "tcp", action |-> "deny"]>>]>>

PolicyFiles == {MissingFile, Policy1, Policy2}

RECURSIVE RuleCount(_)
RuleCount(policies) ==
  IF policies = <<>> THEN 0
  ELSE Len(Head(policies).ingress) + RuleCount(Tail(policies))

(***************************************************************************)
(* The state: os, the host's state; pre, the host's state before the last  *)
(* operation; last, the last operation, its arguments and whether it ran   *)
(* to its end (ok) or left through sys.exit(1); nops, the number of        *)
(* operations run so far.                                                  *)
(***************************************************************************)
VARIABLES os, pre, last, nops

vars == <<os, pre, last, nops>>

\* an operation runs, of a run of at most max operations: res is its result,
\* op the operation and its arguments
Ran(max, res, op) ==
  /\ nops < max
  /\ nops' = nops + 1
  /\ os' = res.st
  /\ pre' = os
  /\ last' = [x \in (DOMAIN op) \cup {"ok"} |-> IF x = "ok" THEN res.ok ELSE op[x]]

Init ==
  /\ os = EmptyOS
  /\ pre = EmptyOS
  /\ last = [op |-> "init", ok |-> TRUE]
  /\ nops = 0

CreateVpcOp(max) ==
  \E name \in VpcNames, public_iface \in Ifaces :
    Ran(max, create_vpc(os, name, vpc_block(name), public_iface, NoFault),
        [op |-> "create_vpc", name |-> name, base_cidr |-> vpc_block(name),
         public_iface |-> public_iface])

CreateVpc == CreateVpcOp(MaxOps)

AddSubnet ==
  \E vpc_name \in VpcNames, subnet_name \in SubnetNames, subnet_type \in Roles :
    Ran(MaxOps, add_subnet(os, vpc_name, subnet_name, subnet_type, vpc_block(vpc_name), NoFault),
        [op |-> "add_subnet", vpc_name |-> vpc_name, subnet_name |-> subnet_name,
         subnet_type |-> subnet_type, base_cidr |-> vpc_block(vpc_name)])

ApplyPolicies ==
  \E vpc_name \in VpcNames, policies_file \in PolicyFiles :
    /\ policies_file # MissingFile =>
         Len(os.input) + RuleCount(policies_file) <= MaxChain
    /\ Ran(MaxOps, apply_policies(os, vpc_name, policies_file, NoFault),
           [op |-> "apply_policies", vpc_name |-> vpc_name,
            policies_file |-> policies_file])

PeerVpcs ==
  \E vpc1 \in VpcNames, vpc2 \in VpcNames :
    /\ vpc1 # vpc2
    /\ Len(os.forward) + 2 <= 2 * MaxChain
    /\ Ran(MaxOps, peer_vpcs(os, vpc1, vpc2, NoFault),
           [op |-> "peer_vpcs", vpc1 |-> vpc1, vpc2 |-> vpc2])

DeleteVpc ==
  \E vpc_name \in VpcNames :
    Ran(MaxOps, delete_vpc(os, vpc_name, NoFault), [op |-> "delete_vpc", vpc_name |-> vpc_name])

Next == CreateVpc \/ AddSubnet \/ ApplyPolicies \/ PeerVpcs \/ DeleteVpc

Spec == Init /\ [][Next]_vars

(***************************************************************************)
(* The runs that are about address allocation: add-subnet is given base    *)
(* blocks of many sizes.                                                   *)
(***************************************************************************)
AddSubnetAlloc ==
  \E vpc_name \in VpcNames, subnet_name \in SubnetNames, subnet_type \in Roles :
   \E base_cidr \in AllocBases(vpc_name) :
    Ran(MaxAllocOps,
        add_subnet(os, vpc_name, subnet_name, subnet_type, base_cidr, NoFault),
        [op |-> "add_subnet", vpc_name |-> vpc_name, subnet_name |-> subnet_name,
         subnet_type |-> subnet_type, base_cidr |-> base_cidr])

CreateVpcAlloc == CreateVpcOp(MaxAllocOps)

NextAlloc == CreateVpcAlloc \/ AddSubnetAlloc

SpecAlloc == Init /\ [][NextAlloc]_vars

(***************************************************************************)
(* The runs in which a command fails for a reason outside the model (the   *)
(* kernel out of memory, a permission missing, a lock held): create-vpc    *)
(* and add-subnet of one VPC are run with at most one such failure, at any *)
(* of their commands.                                                      *)
(***************************************************************************)
\* the run_cmd calls of create_vpc, and the most add_subnet makes
CreateVpcCmds == 4
AddSubnetCmds == 13

Faults(n) == {NoFault} \cup {{k} : k \in 1..n}

\* the failures strike the operations on one VPC; the other stands by
FaultsOn(vpc, n) == IF vpc = app THEN Faults(n) ELSE {NoFault}

CreateVpcFault ==
  \E name \in VpcNames, public_iface \in Ifaces :
   \E f \in FaultsOn(name, CreateVpcCmds) :
    Ran(MaxFaultOps, create_vpc(os, name, vpc_block(name), public_iface, f),
        [op |-> "create_vpc", name |-> name, base_cidr |-> vpc_block(name),
         public_iface |-> public_iface, f |-> f])

AddSubnetFault ==
  \E vpc_name \in VpcNames, subnet_name \in SubnetNames, subnet_type \in Roles :
   \E f \in FaultsOn(vpc_name, AddSubnetCmds) :
    Ran(MaxFaultOps,
        add_subnet(os, vpc_name, subnet_name, subnet_type, vpc_block(vpc_name), f),
        [op |-> "add_subnet", vpc_name |-> vpc_name, subnet_name |-> subnet_name,
         subnet_type |-> subnet_type, base_cidr |-> vpc_block(vpc_name), f |-> f])

PeerVpcsFault ==
  \E vpc1 \in VpcNames, vpc2 \in VpcNames :
    /\ vpc1 # vpc2
    /\ Ran(MaxFaultOps, peer_vpcs(os, vpc1, vpc2, NoFault),
           [op |-> "peer_vpcs", vpc1 |-> vpc1, vpc2 |-> vpc2, f |-> NoFault])

DeleteVpcFault ==
  \E vpc_name \in VpcNames :
    Ran(MaxFaultOps, delete_vpc(os, vpc_name, NoFault),
        [op |-> "delete_vpc", vpc_name |-> vpc_name, f |-> NoFault])

NextFault == CreateVpcFault \/ AddSubnetFault \/ PeerVpcsFault \/ DeleteVpcFault

SpecFault == Init /\ [][NextFault]_vars

(***************************************************************************)
(* The runs with VPC names that contain one another: app, apple and data.  *)
(***************************************************************************)
CreateVpcNames ==
  \E name \in WideVpcNames, public_iface \in Ifaces :
    Ran(MaxNameOps, create_vpc(os, name, vpc_block(name), public_iface, NoFault),
        [op |-> "create_vpc", name |-> name, base_cidr |-> vpc_block(name),
         public_iface |-> public_iface])

AddSubnetNames ==
  \E vpc_name \in WideVpcNames, subnet_name \in SubnetNames, subnet_type \in Roles :
    Ran(MaxNameOps,
        add_subnet(os, vpc_name, subnet_name, subnet_type, vpc_block(vpc_name), NoFault),
        [op |-> "add_subnet", vpc_name |-> vpc_name, subnet_name |-> subnet_name,
         subnet_type |-> subnet_type, base_cidr |-> vpc_block(vpc_name)])

PeerVpcsNames ==
  \E vpc1 \in WideVpcNames, vpc2 \in WideVpcNames :
    /\ vpc1 # vpc2
    /\ Len(os.forward) + 2 <= 2 * MaxChain
    /\ Ran(MaxNameOps, peer_vpcs(os, vpc1, vpc2, NoFault),
           [op |-> "peer_vpcs", vpc1 |-> vpc1, vpc2 |-> vpc2])

DeleteVpcNames ==
  \E vpc_name \in WideVpcNames :
    Ran(MaxNameOps, delete_vpc(os, vpc_name, NoFault),
        [op |-> "delete_vpc", vpc_name |-> vpc_name])

NextNames == CreateVpcNames \/ AddSubnetNames \/ PeerVpcsNames \/ DeleteVpcNames

SpecNames == Init /\ [][NextNames]_vars

(***************************************************************************)
(* What the claims speak of.                                               *)
(***************************************************************************)
\* the default routes of a namespace
DefaultRoutes(st, ns) == {r \in st.netns[ns].routes : r[1] = DefaultDst}

\* the veth pairs that link two devices of the host: the peering links
PeerLinks(st) == {v \in st.veths : v.bNs = HostNs}

\* every route of every namespace, as <<namespace, destination, gateway>>
NsRoutes(st) ==
  UNION {{<<ns, r[1], r[2]>> : r \in st.netns[ns].routes} : ns \in DOMAIN st.netns}

Range(s) == {s[i] : i \in 1..Len(s)}

NoDuplicates(s) == \A i, j \in 1..Len(s) : i # j => s[i] # s[j]

\* the subnet namespaces of a VPC that exist
SubnetNs(st, vpc) == {ns_name(vpc, s) : s \in SubnetNames} \cap DOMAIN st.netns

\* the subnet networks of a VPC: those of the addresses in its namespaces
SubnetCidrs(st, vpc) == vpc_subnets(st, SubnetNs(st, vpc))

\* the rules of a policies file, in the order apply_policies appends them
RECURSIVE RulesOf(_)
RulesOf(policies) ==
  IF policies = <<>> THEN <<>>
  ELSE [i \in 1..Len(Head(policies).ingress) |->
          <<Head(policies).subnet, Head(policies).ingress[i].protocol,
            Head(policies).ingress[i].port,
            target_of(Head(policies).ingress[i].action)>>]
       \o RulesOf(Tail(policies))

(***************************************************************************)
(* C1.  After add-subnet has run to its end with role private the          *)
(* namespace has no default route; with role public it has exactly one     *)
(* default route, through the subnet's gateway address.                    *)
(***************************************************************************)
C1_DefaultRouteByRole ==
  (last.op = "add_subnet" /\ last.ok) =>
    LET ns == ns_name(last.vpc_name, last.subnet_name)
    IN  /\ last.subnet_type = "private" => DefaultRoutes(os, ns) = {}
        /\ last.subnet_type = "public" =>
             DefaultRoutes(os, ns) =
               {<<DefaultDst, gateway_ip_only(last.base_cidr, last.subnet_type)>>}

(***************************************************************************)
(* C2.  peer-vpc(A, B), run when A or B has no discoverable subnet, fails  *)
(* and leaves no peering veth link, no route (in a namespace or on the     *)
(* host) and no forwarding rule that was not there before the call.        *)
(***************************************************************************)
C2_PeerWithoutSubnetsLeavesNothing ==
  (/\ last.op = "peer_vpcs"
   /\ \/ vpc_subnets(pre, ns_list_of(pre, last.vpc1)) = {}
      \/ vpc_subnets(pre, ns_list_of(pre, last.vpc2)) = {}) =>
    /\ ~last.ok
    /\ PeerLinks(os) \subseteq PeerLinks(pre)
    /\ NsRoutes(os) \subseteq NsRoutes(pre)
    /\ os.hroutes \subseteq pre.hroutes
    /\ os.forward = pre.forward

(***************************************************************************)
(* C3.  In every reachable state, two subnets of one VPC with different    *)
(* names, whatever their roles, have networks that do not overlap and      *)
(* namespace addresses that differ.                                        *)
(***************************************************************************)
C3_SubnetsOfAVpcDisjoint ==
  \A vpc \in VpcNames, s1, s2 \in SubnetNames :
    (s1 # s2 /\ {ns_name(vpc, s1), ns_name(vpc, s2)} \subseteq DOMAIN os.netns) =>
      \A a1 \in NsAddrs(os, ns_name(vpc, s1)), a2 \in NsAddrs(os, ns_name(vpc, s2)) :
        ~Overlap(ip_network(a1), ip_network(a2)) /\ a1.ip # a2.ip

(***************************************************************************)
(* C4.  create-vpc, add-subnet and delete-vpc are idempotent: running the  *)
(* operation again with the same arguments, right after it has run, leaves *)
(* the host's state as the first run left it and ends as the first run     *)
(* ended; after a run that reached its end the second run does not abort.  *)
(***************************************************************************)
C4_Idempotent ==
  CASE last.op = "create_vpc" ->
         create_vpc(os, last.name, last.base_cidr, last.public_iface, NoFault)
           = [st |-> os, ok |-> last.ok]
    [] last.op = "add_subnet" ->
         add_subnet(os, last.vpc_name, last.subnet_name, last.subnet_type,
                    last.base_cidr, NoFault) = [st |-> os, ok |-> last.ok]
    [] last.op = "delete_vpc" ->
         delete_vpc(os, last.vpc_name, NoFault) = [st |-> os, ok |-> last.ok]
    [] OTHER -> TRUE

\* add-subnet run a second time on the state its first run left: a public
\* subnet of a VPC with an egress interface, NAT rule and all
C4_Witness ==
  /\ last.op = "add_subnet" /\ last.ok /\ os = pre
  /\ last.subnet_type = "public"
  /\ Len(os.nat) = 1

(***************************************************************************)
(* C5.  For every valid base block that can hold a /24 and every role,     *)
(* the allocation depends on (base block, role) only: the namespace's      *)
(* network is a /24 inside the base block, the gateway is its first host   *)
(* address and the namespace address its second, and the public and the    *)
(* private /24 of one base block do not overlap.                           *)
(***************************************************************************)
C5_AllocationInsideBlock ==
  (last.op = "add_subnet" /\ last.ok /\ ValidNet(last.base_cidr)
     /\ last.base_cidr.len <= 24) =>
    LET ns == ns_name(last.vpc_name, last.subnet_name)
        net == subnet_cidr(last.base_cidr, last.subnet_type)
    IN  /\ NsAddrs(os, ns) = {[ip |-> <<net.ip[1], net.ip[2], net.ip[3], 2>>, len |-> 24]}
        /\ DefaultRoutes(os, ns) = {<<DefaultDst, <<net.ip[1], net.ip[2], net.ip[3], 1>>>>}
        /\ net.len = 24 /\ ValidNet(net)
        /\ SubnetOf(net, last.base_cidr)
        /\ ~Overlap(subnet_cidr(last.base_cidr, "public"),
                    subnet_cidr(last.base_cidr, "private"))

(***************************************************************************)
(* C6.  add-subnet given a base block too small to hold a /24 fails and    *)
(* changes nothing on the host.                                            *)
(***************************************************************************)
C6_SmallBlockRefused ==
  (last.op = "add_subnet" /\ last.base_cidr.len > 24) =>
    ~last.ok /\ os = pre

(***************************************************************************)
(* C7.  add-subnet for a VPC whose bridge does not exist fails and leaves  *)
(* the host's state as it was.                                             *)
(***************************************************************************)
C7_NoBridgeNoChange ==
  (last.op = "add_subnet" /\ ~HostDev(pre, bridge_name(last.vpc_name))) =>
    ~last.ok /\ os = pre

\* add-subnet on a VPC without its bridge, on a host that holds another VPC
\* with a subnet
C7_Witness ==
  /\ last.op = "add_subnet"
  /\ ~HostDev(pre, bridge_name(last.vpc_name))
  /\ pre.netns # EmptyMap

(***************************************************************************)
(* C8.  After peer-vpc(A, B) has run to its end on two VPCs with at least  *)
(* one subnet each, every subnet namespace of A holds exactly one route to *)
(* each subnet network of B, through A's own bridge gateway, the same for  *)
(* B, and the FORWARD chain holds exactly one rule A to B and one B to A.  *)
(***************************************************************************)
PeerRoutesIn(st, vpcA, vpcB) ==
  \A ns \in SubnetNs(st, vpcA), c \in SubnetCidrs(st, vpcB) :
    {r \in st.netns[ns].routes : r[1] = c}
      = {<<c, get_bridge_gateway(st, bridge_name(vpcA))>>}

C8_PeeringRoutesAndRules ==
  (/\ last.op = "peer_vpcs" /\ last.ok
   /\ SubnetNs(pre, last.vpc1) # {} /\ SubnetNs(pre, last.vpc2) # {}) =>
    /\ PeerRoutesIn(os, last.vpc1, last.vpc2)
    /\ PeerRoutesIn(os, last.vpc2, last.vpc1)
    /\ Count(os.forward, <<bridge_name(last.vpc1), bridge_name(last.vpc2)>>) = 1
    /\ Count(os.forward, <<bridge_name(last.vpc2), bridge_name(last.vpc1)>>) = 1

(***************************************************************************)
(* C9.  A NAT rule is installed only by add-subnet for a public subnet of  *)
(* a VPC whose metadata, written by create-vpc, names an egress interface, *)
(* for that subnet's network and that interface; and the POSTROUTING chain *)
(* never holds a rule twice.                                               *)
(***************************************************************************)
C9_NatOnlyWithEgressAndOnce ==
  /\ NoDuplicates(os.nat)
  /\ \A rule \in Range(os.nat) \ Range(pre.nat) :
       /\ last.op = "add_subnet" /\ last.subnet_type = "public"
       /\ read_meta(pre, last.vpc_name) # NoIface
       /\ rule = <<subnet_cidr(last.base_cidr, "public"), read_meta(pre, last.vpc_name)>>

\* add-subnet run again for a public subnet whose NAT rule is in place
C9_Witness ==
  /\ last.op = "add_subnet" /\ last.ok /\ last.subnet_type = "public"
  /\ read_meta(pre, last.vpc_name) # NoIface
  /\ InSeq(pre.nat, <<subnet_cidr(last.base_cidr, "public"), read_meta(pre, last.vpc_name)>>)
  /\ Len(os.nat) = 1

(***************************************************************************)
(* C10.  apply-policies run on a host whose INPUT chain already holds the  *)
(* rules of the policies file leaves the chain as it is: no rule is        *)
(* duplicated.                                                             *)
(***************************************************************************)
C10_ReapplyAddsNothing ==
  (/\ last.op = "apply_policies" /\ last.ok
   /\ last.policies_file # MissingFile
   /\ Range(RulesOf(last.policies_file)) \subseteq Range(pre.input)) =>
    os.input = pre.input /\ NoDuplicates(os.input)

\* the policies of a file whose subnet is the network of no namespace
PoliciesWithoutNamespace(st, policies) ==
  {i \in 1..Len(policies) :
     ~\E ns \in DOMAIN st.netns : policies[i].subnet \in get_ns_subnets(st, ns)}

(***************************************************************************)
(* C11.  apply-policies given a policy whose subnet has no namespace fails *)
(* and appends no rule to the INPUT chain.                                 *)
(***************************************************************************)
C11_PoliciesNeedNamespace ==
  (/\ last.op = "apply_policies"
   /\ last.policies_file # MissingFile
   /\ PoliciesWithoutNamespace(pre, last.policies_file) # {}) =>
    ~last.ok /\ os.input = pre.input

\* the places of the commands of a kind in a trace
Positions(tr, kinds) == {i \in 1..Len(tr) : tr[i].cmd.c \in kinds}

BridgeCmds == {"ip link set down", "ip link delete type bridge"}
FlushCmds == {"iptables -F", "iptables -t nat -F"}

\* in the trace of a delete-vpc run on state st: every namespace of the VPC
\* is deleted, the bridge's commands find no namespace of the VPC left and
\* come after every deletion, and the flushes find no bridge left and come
\* after the bridge's commands
DeleteOrder(tr, st, vpc) ==
  /\ \A ns \in SubnetNs(st, vpc) :
       \E i \in Positions(tr, {"ip netns del"}) : tr[i].cmd.a[1] = ns /\ tr[i].raw
  /\ Positions(tr, {"ip link delete type bridge"}) # {}
  /\ Positions(tr, {"iptables -F"}) # {}
  /\ Positions(tr, {"iptables -t nat -F"}) # {}
  /\ \A j \in Positions(tr, BridgeCmds) :
       /\ SubnetNs(tr[j].st, vpc) = {}
       /\ \A i \in Positions(tr, {"ip netns del"}) : i < j
  /\ \A k \in Positions(tr, FlushCmds) :
       /\ bridge_name(vpc) \notin DOMAIN tr[k].st.bridges
       /\ \A j \in Positions(tr, BridgeCmds) : j < k

(***************************************************************************)
(* C12.  delete-vpc deletes every namespace of the VPC, then the bridge,   *)
(* then flushes the NAT and filter rules, in that order, and it runs to    *)
(* its end whether or not the namespaces, the bridge or the rules exist.   *)
(***************************************************************************)
C12_DeleteOrderAndTolerance ==
  last.op = "delete_vpc" =>
    /\ last.ok
    /\ DeleteOrder(delete_vpc_run(pre, last.vpc_name, NoFault).tr, pre, last.vpc_name)

\* delete-vpc of a VPC with its bridge, two subnets and a NAT rule
C12_Witness ==
  /\ last.op = "delete_vpc" /\ last.ok
  /\ Cardinality(SubnetNs(pre, last.vpc_name)) = 2
  /\ bridge_name(last.vpc_name) \in DOMAIN pre.bridges
  /\ pre.nat # <<>>
  /\ os.nat = <<>>

\* the devices of the host named as the peering link of two VPCs, in either
\* argument order
PeerDevices(st, vpcA, vpcB) ==
  {v \in st.veths : v.a \in {veth1(vpcA, vpcB), veth1(vpcB, vpcA)}}

\* the veth pairs of the subnets of a VPC
SubnetDevices(st, vpc) ==
  {v \in st.veths : \E s \in SubnetNames : v.a = veth_host(vpc, s)}

(***************************************************************************)
(* C13.  After delete-vpc(V) has run to its end nothing of V is left on    *)
(* the host: no subnet namespace, no subnet veth pair, no bridge, and no   *)
(* veth link of a peering of V with another VPC.                           *)
(***************************************************************************)
C13_DeleteLeavesNothing ==
  (last.op = "delete_vpc" /\ last.ok) =>
    /\ SubnetNs(os, last.vpc_name) = {}
    /\ SubnetDevices(os, last.vpc_name) = {}
    /\ bridge_name(last.vpc_name) \notin DOMAIN os.bridges
    /\ \A w \in VpcNames \ {last.vpc_name} : PeerDevices(os, last.vpc_name, w) = {}

\* the failures of the last operation's commands: those of the run, none in
\* the runs without failures
FaultsOfLast == IF "f" \in DOMAIN last THEN last.f ELSE NoFault

\* the command trace of the last operation, run again on the state it found
TraceOfLast ==
  CASE last.op = "create_vpc" ->
         create_vpc_run(pre, last.name, last.base_cidr, last.public_iface,
                        FaultsOfLast).tr
    [] last.op = "add_subnet" ->
         add_subnet_run(pre, last.vpc_name, last.subnet_name, last.subnet_type,
                        last.base_cidr, FaultsOfLast).tr
    [] last.op = "apply_policies" ->
         apply_policies_run(pre, last.vpc_name, last.policies_file, FaultsOfLast).tr
    [] last.op = "peer_vpcs" ->
         peer_vpcs_run(pre, last.vpc1, last.vpc2, FaultsOfLast).tr
    [] last.op = "delete_vpc" -> delete_vpc_run(pre, last.vpc_name, FaultsOfLast).tr
    [] OTHER -> <<>>

\* the command finds what it is to bring about already there (or what it is
\* to remove already gone)
AlreadySo(st, cmd) ==
  CASE cmd.c = "ip link add type bridge" -> cmd.a[1] \in DOMAIN st.bridges
    [] cmd.c = "ip addr add dev" ->
         /\ cmd.a[2] \in DOMAIN st.bridges
         /\ InSeq(st.bridges[cmd.a[2]].addrs, cmd.a[1])
    [] cmd.c = "ip link del" -> ~HostDev(st, cmd.a[1])
    [] cmd.c = "ip netns del" -> cmd.a[1] \notin DOMAIN st.netns
    [] cmd.c \in BridgeCmds -> cmd.a[1] \notin DOMAIN st.bridges
    [] cmd.c = "ip netns exec ip route add via" ->
         /\ cmd.a[1] \in DOMAIN st.netns
         /\ <<cmd.a[2], cmd.a[3]>> \in st.netns[cmd.a[1]].routes
    [] cmd.c = "ip route add dev" -> <<cmd.a[1], cmd.a[2]>> \in st.hroutes
    [] OTHER -> FALSE

\* the commands of a trace that failed for another reason than that
RealFailures(tr, f) ==
  {i \in 1..Len(tr) : ~tr[i].raw /\ (i \in f \/ ~AlreadySo(tr[i].st, tr[i].cmd))}

\* a failure ends the operation: it is the last command, and no success is
\* reported
AbortsAt(tr, fails, ok) == \A i \in fails : i = Len(tr) /\ ~ok

(***************************************************************************)
(* C14.  In every operation a command that fails for another reason than   *)
(* "already in the desired state" ends the operation at once: no later     *)
(* command runs and the operation does not report success.                 *)
(***************************************************************************)
C14_FailureAborts ==
  AbortsAt(TraceOfLast, RealFailures(TraceOfLast, FaultsOfLast), last.ok)

(***************************************************************************)
(* C15.  add-subnet can be run again after it was cut short: when a run    *)
(* on a host with the VPC's bridge ends at a failing command, a run        *)
(* without failures, with the same arguments, on the state it left runs to *)
(* its end and leaves the state that a run without failures on the state   *)
(* before the cut-short run leaves.                                        *)
(***************************************************************************)
C15_RerunAfterAbort ==
  (/\ last.op = "add_subnet" /\ ~last.ok
   /\ HostDev(pre, bridge_name(last.vpc_name))) =>
    /\ add_subnet(os, last.vpc_name, last.subnet_name, last.subnet_type,
                  last.base_cidr, NoFault)
         = add_subnet(pre, last.vpc_name, last.subnet_name, last.subnet_type,
                      last.base_cidr, NoFault)
    /\ add_subnet(pre, last.vpc_name, last.subnet_name, last.subnet_type,
                  last.base_cidr, NoFault).ok

\* an add-subnet cut short after it made the namespace and the veth pair, on
\* a host where the subnet was there before
C15_Witness ==
  /\ last.op = "add_subnet" /\ ~last.ok
  /\ HostDev(pre, bridge_name(last.vpc_name))
  /\ ns_name(last.vpc_name, last.subnet_name) \in DOMAIN pre.netns
  /\ ns_name(last.vpc_name, last.subnet_name) \in DOMAIN os.netns
  /\ HostDev(os, veth_host(last.vpc_name, last.subnet_name))
  /\ DefaultRoutes(os, ns_name(last.vpc_name, last.subnet_name)) = {}

\* the addresses add-subnet put on the bridge of a VPC as subnet gateways,
\* among those the bridge holds
GatewaysOn(st, vpc) ==
  IF bridge_name(vpc) \notin DOMAIN st.bridges THEN {}
  ELSE Range(st.bridges[bridge_name(vpc)].addrs)
         \cap {gateway_ip(vpc_block(vpc), role) : role \in Roles}

(***************************************************************************)
(* C16.  create-vpc run for a VPC whose bridge exists leaves the bridge as *)
(* it is; in particular the subnet gateway addresses that add-subnet put   *)
(* on the bridge are still on it.                                          *)
(***************************************************************************)
C16_CreateKeepsBridge ==
  (/\ last.op = "create_vpc" /\ last.ok
   /\ bridge_name(last.name) \in DOMAIN pre.bridges) =>
    /\ os.bridges[bridge_name(last.name)] = pre.bridges[bridge_name(last.name)]
    /\ GatewaysOn(pre, last.name) \subseteq GatewaysOn(os, last.name)

\* the commands of a trace that installed a default route
DefaultRouteInstalls(tr) ==
  {i \in Positions(tr, {"ip netns exec ip route add via"}) :
     tr[i].cmd.a[2] = DefaultDst /\ tr[i].raw}

\* each default route of the trace goes through an address that the bridge
\* holds when the route is installed
GatewayOnBridgeAt(tr, br) ==
  \A i \in DefaultRouteInstalls(tr) :
    /\ br \in DOMAIN tr[i].st.bridges
    /\ \E a \in Range(tr[i].st.bridges[br].addrs) : a.ip = tr[i].cmd.a[3]

(***************************************************************************)
(* C17.  Whenever add-subnet installs the default route of a namespace,    *)
(* the gateway address the route goes through is on the VPC's bridge at    *)
(* that moment, also in the runs where the command that adds the address   *)
(* to the bridge fails.                                                    *)
(***************************************************************************)
C17_GatewayBeforeRoute ==
  last.op = "add_subnet" =>
    GatewayOnBridgeAt(TraceOfLast, bridge_name(last.vpc_name))

\* the veth pairs that link the bridges of two VPCs
LinksBetween(st, vpcA, vpcB) ==
  {v \in PeerLinks(st) : {v.aMaster, v.bMaster} = {bridge_name(vpcA), bridge_name(vpcB)}}

\* the places of the FORWARD chain that hold a rule between the two bridges
RulesBetween(st, vpcA, vpcB) ==
  {i \in 1..Len(st.forward) :
     st.forward[i] \in {<<bridge_name(vpcA), bridge_name(vpcB)>>,
                        <<bridge_name(vpcB), bridge_name(vpcA)>>}}

(***************************************************************************)
(* C18.  A peering is a matter of the unordered pair of VPC names: after a *)
(* peer-vpc of the pair that ran to its end the host has exactly one veth  *)
(* pair between the two bridges and exactly two FORWARD rules for them,    *)
(* and a further peer-vpc of the pair, in either argument order, leaves    *)
(* the host's state as it is.                                              *)
(***************************************************************************)
C18_PeeringUnordered ==
  (last.op = "peer_vpcs" /\ last.ok) =>
    /\ Cardinality(LinksBetween(os, last.vpc1, last.vpc2)) = 1
    /\ Cardinality(RulesBetween(os, last.vpc1, last.vpc2)) = 2
    /\ peer_vpcs(os, last.vpc1, last.vpc2, NoFault) = Done(os)
    /\ peer_vpcs(os, last.vpc2, last.vpc1, NoFault) = Done(os)

\* what a VPC has on the host: its subnet namespaces with their routes, the
\* veth pairs into them, its bridge, and the public_interface of its
\* metadata file
Holdings(st, vpc) ==
  [netns |-> [ns \in SubnetNs(st, vpc) |-> st.netns[ns]],
   veths |-> {v \in st.veths : v.bNs \in SubnetNs(st, vpc)},
   bridge |-> IF bridge_name(vpc) \in DOMAIN st.bridges
              THEN <<st.bridges[bridge_name(vpc)]>> ELSE <<>>,
   public_interface |-> read_meta(st, vpc)]

(***************************************************************************)
(* C19.  delete-vpc(V) leaves every other VPC W as it is, also a W whose   *)
(* name contains V: W's subnet namespaces, W's bridge and the              *)
(* public_interface of W's metadata are unchanged.                         *)
(***************************************************************************)
C19_DeleteLeavesOthers ==
  last.op = "delete_vpc" =>
    \A w \in WideVpcNames \ {last.vpc_name} : Holdings(os, w) = Holdings(pre, w)

(***************************************************************************)
(* C20.  The device names of a peering link are at most 15 characters and  *)
(* belong to one pair of VPCs: peer-vpc(C, D) leaves in place every veth   *)
(* link that joins the bridges of another pair of VPCs.                    *)
(***************************************************************************)
C20_PeerKeepsOtherLinks ==
  last.op = "peer_vpcs" =>
    /\ Len(veth1(last.vpc1, last.vpc2)) <= 15
    /\ Len(veth2(last.vpc1, last.vpc2)) <= 15
    /\ \A a \in WideVpcNames, b \in WideVpcNames :
         (a # b /\ {a, b} # {last.vpc1, last.vpc2}) =>
           LinksBetween(pre, a, b) \subseteq LinksBetween(os, a, b)

=============================================================================
